---- MODULE Spec2Model ----
(***************************************************************************)
(* A model of demo_app.py of cjm-transcript-source-select:                 *)
(*   - MockTranscriptionProvider (construction, query_records,             *)
(*     get_source_block), with the Python object graph made explicit: a    *)
(*     record's "metadata" is a reference to a dict object on a heap, so   *)
(*     that handing the same dict to a caller is visible;                  *)
(*   - the provider set-up of main() (real database or mock fallback);     *)
(*   - get_selection_state / demo_selection over the workflow state store. *)
(*                                                                         *)
(* Python values are modelled as follows.                                  *)
(*   dict with optional keys : a record whose fields are sets of at most   *)
(*                             one element ({} = key absent)               *)
(*   a metadata dict's value : a set of <<key, value>> pairs               *)
(*   Optional[str]           : PyStr(s) or PyNone                          *)
(*   a return value or None  : a set of at most one element ({} = None)    *)
(*   datetime / timedelta    : integers, in hours                          *)
(*   float 45.2              : the integer 452 (tenths)                    *)
(***************************************************************************)
EXTENDS Integers, Sequences, FiniteSets, TLC

VARIABLES
    ctorArg,        \* the _records argument given to the constructor ([] when omitted)
    clock,          \* per run: the readings of datetime.now() during construction
    records,        \* per run: MockTranscriptionProvider._records
    heap,           \* per run: the metadata dict objects, by reference
    call,           \* the last operation applied (to both runs)
    out,            \* per run: the value the last accessor call returned
    db_exists,      \* main: TEST_DB_PATH.exists()
    db_rows,        \* main: the number of rows the real database offers
    main_pc,        \* main: "setup" before the provider is chosen, "ready" after
    source_service, \* main: the providers added to the SourceService, in order
    provider_info,  \* main: the dict the homepage shows
    state_store,    \* session: the stored workflow state of (workflow_id, session_id)
    pc,             \* per request: position in demo_selection / get_selection_state
    state,          \* per request: the local variable state of get_selection_state
    written,        \* per request: what the call passed to update_state, if anything
    result          \* per request: what get_selection_state returned

providerVars == <<ctorArg, clock, records, heap, call, out>>
mainVars == <<db_exists, db_rows, main_pc, source_service, provider_info>>
sessionVars == <<state_store, pc, state, written, result>>
vars == <<providerVars, mainVars, sessionVars>>

-----------------------------------------------------------------------------
(* Bounds *)

MaxSupplied == 2        \* longest caller-supplied record list
MaxClock == 1           \* datetime.now() reads 0 .. MaxClock
MaxDbRows == 101        \* most rows in the real database
MaxRequests == 2        \* concurrent demo_selection requests

(* Program constants *)

DefaultLimit == 100     \* def query_records(self, limit: int = 100)

_id == "mock:demo-transcriptions"
_name == "Demo Transcriptions"

Runs == {1, 2}          \* two runs of the program, stepped side by side

-----------------------------------------------------------------------------
(* Python helpers *)

Min(a, b) == IF a <= b THEN a ELSE b
Max(a, b) == IF a >= b THEN a ELSE b

\* d.get(key, default), the key's presence given as a set of at most one value
Get(opt, default) == IF opt = {} THEN default ELSE CHOOSE v \in opt : TRUE

PyStr(s) == [t |-> "str", v |-> s]
PyNone == [t |-> "None", v |-> ""]

\* d.get(key): the value, or None
GetOrNone(opt) == IF opt = {} THEN PyNone ELSE PyStr(CHOOSE v \in opt : TRUE)

\* seq[:limit + 1] for a limit >= 0
SliceInclusive(seq, limit) ==
    LET n == Len(seq)
        stop == IF limit < 0 THEN Max(n + limit, 0) ELSE Min(limit + 1, n)
    IN  SubSeq(seq, 1, stop)

\* seq[:limit]
Slice(seq, limit) ==
    LET n == Len(seq)
        stop == IF limit < 0 THEN Max(n + limit, 0) ELSE Min(limit, n)
    IN  SubSeq(seq, 1, stop)

\* datetime.isoformat(): an injective rendering of the time as a string
IsoFormat(t) == ToString(t)

\* timedelta(days=d, hours=h)
timedelta(d, h) == 24 * d + h

-----------------------------------------------------------------------------
(* MockTranscriptionProvider *)

\* now[k] is the k-th reading of datetime.now(), in the order of evaluation.
GenerateSampleData(now) ==
    << [job_id |-> "job_demo_001",
        audio_path |-> {"/audio/sun_tzu_ch1.mp3"},
        text |-> {"Laying Plans. Sun Tzu said: The art of war is of vital importance to the State. It is a matter of life and death, a road either to safety or to ruin. Hence it is a subject of inquiry which can on no account be neglected."},
        created_at |-> {IsoFormat(now[1] - timedelta(1, 0))},
        metadata |-> {{<<"chapter", 1>>, <<"duration", 452>>}}],
       [job_id |-> "job_demo_002",
        audio_path |-> {"/audio/sun_tzu_ch1.mp3"},
        text |-> {"The art of war, then, is governed by five constant factors, to be taken into account in one's deliberations, when seeking to determine the conditions obtaining in the field."},
        created_at |-> {IsoFormat(now[2] - timedelta(1, 1))},
        metadata |-> {{<<"chapter", 1>>, <<"duration", 321>>}}],
       [job_id |-> "job_demo_003",
        audio_path |-> {"/audio/sun_tzu_ch2.mp3"},
        text |-> {"Waging War. Sun Tzu said: In the operations of war, where there are in the field a thousand swift chariots, as many heavy chariots, and a hundred thousand mail-clad soldiers, with provisions enough to carry them a thousand li, the expenditure at home and at the front will reach the total of a thousand ounces of silver per day."},
        created_at |-> {IsoFormat(now[3] - timedelta(2, 0))},
        metadata |-> {{<<"chapter", 2>>, <<"duration", 587>>}}],
       [job_id |-> "job_demo_004",
        audio_path |-> {"/audio/sun_tzu_ch3.mp3"},
        text |-> {"Attack by Stratagem. Sun Tzu said: In the practical art of war, the best thing of all is to take the enemy's country whole and intact; to shatter and destroy it is not so good."},
        created_at |-> {IsoFormat(now[4] - timedelta(3, 0))},
        metadata |-> {{<<"chapter", 3>>, <<"duration", 415>>}}],
       [job_id |-> "job_demo_005",
        audio_path |-> {"/audio/sun_tzu_ch3.mp3"},
        text |-> {"So, too, it is better to recapture an army entire than to destroy it, to capture a regiment, a detachment or a company entire than to destroy them."},
        created_at |-> {IsoFormat(now[5] - timedelta(3, 2))},
        metadata |-> {{<<"chapter", 3>>, <<"duration", 283>>}}] >>

\* __post_init__ without the generation of the sample data
PostInitKeepsEmpty(arg, now) == arg

\* __post_init__: an empty (or omitted) list is replaced by the sample data.
PostInit(arg, now) ==
    IF arg = <<>> THEN GenerateSampleData(now) ELSE arg

\* The number of readings of datetime.now() that __post_init__(arg) makes.
ClockReads(arg) == IF arg = <<>> THEN Len(GenerateSampleData(<<0, 0, 0, 0, 0>>)) ELSE 0

SampleLen == Len(GenerateSampleData(<<0, 0, 0, 0, 0>>))
MaxLen == Max(SampleLen, MaxSupplied)

\* References.  Cell i holds the metadata dict of the i-th stored record; the
\* dict that rec.get("metadata", {}) creates for the i-th output of
\* query_records is cell MaxLen + i, and the one get_source_block creates is
\* cell 2 * MaxLen + 1.
RecordCells == 1 .. MaxLen
FreshCell(i) == MaxLen + i
BlockCell == 2 * MaxLen + 1
Cells == 1 .. BlockCell

EmptyDict == {}

\* The list of dicts as objects: each record holds a reference to its metadata.
RecordsOf(list) ==
    [i \in 1 .. Len(list) |->
        [list[i] EXCEPT !.metadata = IF list[i].metadata = {} THEN {} ELSE {i}]]

HeapOf(list) ==
    [c \in Cells |->
        IF c \in 1 .. Len(list) /\ list[c].metadata # {}
        THEN CHOOSE d \in list[c].metadata : TRUE
        ELSE EmptyDict]

\* The dicts created by earlier calls are garbage once a new call returns.
ResetFresh(h) == [c \in Cells |-> IF c \in RecordCells THEN h[c] ELSE EmptyDict]

\* SourceRecord(...) with created_at passed for text
SourceRecordMixed(rec, i, id) ==
    [record_id |-> rec.job_id,
     media_path |-> PyStr(Get(rec.audio_path, "")),
     text |-> Get(rec.created_at, ""),
     metadata |-> Get(rec.metadata, FreshCell(i)),
     created_at |-> Get(rec.created_at, ""),
     provider_id |-> id]

\* SourceRecord(...) with media_path=rec.get("audio_path"), as get_source_block has it
SourceRecordNoneDefault(rec, i, id) ==
    [record_id |-> rec.job_id,
     media_path |-> GetOrNone(rec.audio_path),
     text |-> Get(rec.text, ""),
     metadata |-> Get(rec.metadata, FreshCell(i)),
     created_at |-> Get(rec.created_at, ""),
     provider_id |-> id]

\* SourceRecord(...) for the i-th record of the slice
SourceRecord(rec, i, id) ==
    [record_id |-> rec.job_id,
     media_path |-> PyStr(Get(rec.audio_path, "")),
     text |-> Get(rec.text, ""),
     metadata |-> Get(rec.metadata, FreshCell(i)),
     created_at |-> Get(rec.created_at, ""),
     provider_id |-> id]

\* query_records(limit): the list it returns
QueryRecords(recs, id, limit) ==
    LET s == Slice(recs, limit)
    IN  [i \in 1 .. Len(s) |-> SourceRecord(s[i], i, id)]

\* SourceBlock(...) with media_path=rec.get("audio_path", ""), as query_records has it
SourceBlockEmptyDefault(rec, id) ==
    [id |-> rec.job_id,
     provider_id |-> id,
     text |-> Get(rec.text, ""),
     media_path |-> PyStr(Get(rec.audio_path, "")),
     metadata |-> Get(rec.metadata, BlockCell)]

\* SourceBlock(...) for a stored record
SourceBlock(rec, id) ==
    [id |-> rec.job_id,
     provider_id |-> id,
     text |-> Get(rec.text, ""),
     media_path |-> GetOrNone(rec.audio_path),
     metadata |-> Get(rec.metadata, BlockCell)]

\* The loop of get_source_block from position i on: the first match, or None.
RECURSIVE ScanFrom(_, _, _, _)
ScanFrom(recs, id, record_id, i) ==
    IF i > Len(recs) THEN {}
    ELSE IF recs[i].job_id = record_id THEN {SourceBlock(recs[i], id)}
    ELSE ScanFrom(recs, id, record_id, i + 1)

\* get_source_block without the early return: the last match wins
GetSourceBlockLast(recs, id, record_id) ==
    LET m == {i \in 1 .. Len(recs) : recs[i].job_id = record_id}
    IN  IF m = {} THEN {}
        ELSE {SourceBlock(recs[CHOOSE i \in m : \A j \in m : j <= i], id)}

GetSourceBlock(recs, id, record_id) == ScanFrom(recs, id, record_id, 1)

-----------------------------------------------------------------------------
(* Inputs *)

JobIds == {"job_a", "job_b"}
LookupIds == JobIds \cup {"job_demo_001", "job_demo_005", "job_missing"}

\* The returned values a caller edits: the SourceBlock (0) or the first SourceRecord
EditSlots == {0, 1}

\* Caller-supplied records: job_id is required, the other keys are optional.
\* A record is complete, lacks audio_path, lacks metadata, or has job_id only.
SuppliedRecords ==
    { [job_id |-> j, audio_path |-> k[1], text |-> k[2], created_at |-> k[3],
       metadata |-> k[4]] :
        j \in JobIds,
        k \in { <<{"/audio/a.mp3"}, {"alpha"}, {"2024-01-01T00:00:00"}, {{<<"chapter", 7>>}}>>,
                <<{}, {"beta"}, {"2024-01-02T00:00:00"}, {{<<"chapter", 8>>}}>>,
                <<{"/audio/c.mp3"}, {"gamma"}, {"2024-01-03T00:00:00"}, {}>>,
                <<{}, {}, {}, {}>> } }

SuppliedLists == UNION {[1 .. n -> SuppliedRecords] : n \in 1 .. MaxSupplied}

\* Successive readings of the clock never go back.
ClockReadings(n) ==
    {s \in [1 .. n -> 0 .. MaxClock] : \A i \in 1 .. n - 1 : s[i] <= s[i + 1]}

Limits == (0 - MaxSupplied - 1) .. (MaxLen + 1)
LimitArgs == {{}} \cup {{l} : l \in Limits}      \* {} = argument omitted

NoCall == [op |-> "init", given |-> {}, limit |-> 0, record_id |-> ""]
NoOut == [records |-> <<>>, block |-> {}]

-----------------------------------------------------------------------------
(* The provider, two runs side by side on the same input *)

InitProvider ==
    /\ ctorArg \in {<<>>} \cup SuppliedLists
    /\ clock \in [Runs -> ClockReadings(ClockReads(ctorArg))]
    /\ records = [p \in Runs |-> RecordsOf(PostInit(ctorArg, clock[p]))]
    /\ heap = [p \in Runs |-> HeapOf(PostInit(ctorArg, clock[p]))]
    /\ call = NoCall
    /\ out = [p \in Runs |-> NoOut]

query_records(given) ==
    LET limit == Get(given, DefaultLimit) IN
    /\ call' = [op |-> "query_records", given |-> given, limit |-> limit,
                record_id |-> ""]
    /\ out' = [p \in Runs |->
                [records |-> QueryRecords(records[p], _id, limit), block |-> {}]]
    /\ heap' = [p \in Runs |-> ResetFresh(heap[p])]
    /\ UNCHANGED <<ctorArg, clock, records, mainVars, sessionVars>>

get_source_block(record_id) ==
    /\ call' = [op |-> "get_source_block", given |-> {}, limit |-> 0,
                record_id |-> record_id]
    /\ out' = [p \in Runs |->
                [records |-> <<>>,
                 block |-> GetSourceBlock(records[p], _id, record_id)]]
    /\ heap' = [p \in Runs |-> ResetFresh(heap[p])]
    /\ UNCHANGED <<ctorArg, clock, records, mainVars, sessionVars>>

\* The dict a returned value's metadata refers to (slot 0 is the SourceBlock)
Returned(p, slot) ==
    IF slot = 0
    THEN {b.metadata : b \in out[p].block}
    ELSE IF slot \in 1 .. Len(out[p].records)
         THEN {out[p].records[slot].metadata} ELSE {}

\* value.metadata["edited"] = 1 by the caller, on the object it was handed
SetItem(h, cell) == [h EXCEPT ![cell] = h[cell] \cup {<<"edited", 1>>}]

CallerEditsMetadata(slot) ==
    /\ \A p \in Runs : Returned(p, slot) # {}
    /\ \E p \in Runs : \E c \in Returned(p, slot) : <<"edited", 1>> \notin heap[p][c]
    /\ heap' = [p \in Runs |-> SetItem(heap[p], CHOOSE c \in Returned(p, slot) : TRUE)]
    /\ call' = [call EXCEPT !.op = "edit"]
    /\ UNCHANGED <<ctorArg, clock, records, out, mainVars, sessionVars>>

-----------------------------------------------------------------------------
(* main(): the source service gets the real provider or the mock one *)

QueryLimit == 100       \* real_provider.query_records(limit=100)

\* TranscriptionDBProvider(db_path, name, provider_id) over a database of rows rows
TranscriptionDBProvider(name, provider_id, rows) ==
    [kind |-> "real", provider_name |-> name, provider_id |-> provider_id, rows |-> rows]

\* len(real_provider.query_records(limit))
RealQueryCount(provider, limit) == Min(limit, provider.rows)

\* MockTranscriptionProvider() as main() constructs it, now being the clock readings
MockProvider(now) ==
    [kind |-> "mock", provider_name |-> _name, provider_id |-> _id,
     rows |-> Len(RecordsOf(PostInit(<<>>, now)))]

\* source_service.add_provider(provider)
add_provider(service, provider) == Append(service, provider)

InitMain ==
    /\ db_exists \in BOOLEAN
    /\ db_rows \in (IF db_exists THEN 0 .. MaxDbRows ELSE {0})
    /\ main_pc = "setup"
    /\ source_service = <<>>
    /\ provider_info = [name |-> "", record_count |-> 0, is_mock |-> FALSE]

\* main() with the else branch taken whatever TEST_DB_PATH.exists() says
SetUpMockOnly ==
    /\ main_pc = "setup"
    /\ \E now \in ClockReadings(ClockReads(<<>>)) :
        LET mock_provider == MockProvider(now) IN
        /\ source_service' = add_provider(source_service, mock_provider)
        /\ provider_info' = [name |-> mock_provider.provider_name,
                             record_count |-> mock_provider.rows,
                             is_mock |-> TRUE]
    /\ main_pc' = "ready"
    /\ UNCHANGED <<db_exists, db_rows, providerVars, sessionVars>>

\* main(): "Try to use real database, fall back to mock data"
SetUpProvider ==
    /\ main_pc = "setup"
    /\ IF db_exists
       THEN LET real_provider ==
                    TranscriptionDBProvider("Voxtral HF Transcriptions", "test:voxtral-hf", db_rows)
            IN  /\ source_service' = add_provider(source_service, real_provider)
                /\ provider_info' = [name |-> real_provider.provider_name,
                                     record_count |-> RealQueryCount(real_provider, QueryLimit),
                                     is_mock |-> FALSE]
       ELSE \E now \in ClockReadings(ClockReads(<<>>)) :
            LET mock_provider == MockProvider(now) IN
            /\ source_service' = add_provider(source_service, mock_provider)
            /\ provider_info' = [name |-> mock_provider.provider_name,
                                 record_count |-> mock_provider.rows,
                                 is_mock |-> TRUE]
    /\ main_pc' = "ready"
    /\ UNCHANGED <<db_exists, db_rows, providerVars, sessionVars>>

-----------------------------------------------------------------------------
(* get_selection_state and demo_selection over the workflow state store.
   One (workflow_id, session_id) key is modelled: the store is keyed by it and
   no operation here touches another key. *)

Requests == 1 .. MaxRequests

EmptySelection ==
    [selected_sources |-> {}, grouping_mode |-> {}, external_db_paths |-> {},
     file_browser_state |-> {}]

\* {}: what get_state returns when nothing is stored
EmptyState == [step_states |-> {}, source_tab |-> {}, current_step |-> {}]

\* {"step_states": {"selection": {}}, "source_tab": "db"}
InitialState ==
    [step_states |-> {[selection |-> {EmptySelection}]},
     source_tab |-> {"db"},
     current_step |-> {}]

\* "if state:" for "if not state:": true of every state tried here but {}
NotEmptyDict(st) == ~(st.step_states = {} /\ st.source_tab = {} /\ st.current_step = {})

\* not state
IsEmptyDict(st) == st.step_states = {} /\ st.source_tab = {} /\ st.current_step = {}

\* state.get("step_states", {}).get("selection", {})
StepState(st) == Get(Get(st.step_states, [selection |-> {}]).selection, EmptySelection)

\* the dict get_selection_state returns
SelectionResult(st) ==
    LET step_state == StepState(st) IN
    [selected_sources |-> Get(step_state.selected_sources, <<>>),
     grouping_mode |-> Get(step_state.grouping_mode, "media_path"),
     external_db_paths |-> Get(step_state.external_db_paths, <<>>),
     file_browser_state |-> Get(step_state.file_browser_state, EmptyDict),
     active_tab |-> Get(st.source_tab, "db")]

\* States an earlier run or the selection routes may have left in the store
FullSelection ==
    [selected_sources |-> {<<"job_demo_002", "job_demo_001">>},
     grouping_mode |-> {"batch_id"},
     external_db_paths |-> {<<"/data/extra.db">>},
     file_browser_state |-> {{<<"current_path", "/data">>}}]

PersistedStates ==
    { EmptyState,
      InitialState,
      [EmptyState EXCEPT !.source_tab = {"files"}],
      [EmptyState EXCEPT !.current_step = {"selection"}],
      [EmptyState EXCEPT !.step_states = {[selection |-> {}]}],
      [InitialState EXCEPT !.step_states = {[selection |-> {FullSelection}]},
                           !.source_tab = {"files"}],
      [EmptyState EXCEPT !.step_states =
          {[selection |-> {[EmptySelection EXCEPT !.grouping_mode = {"batch_id"}]}]}] }

NoRequest == [r \in Requests |-> {}]

InitSession ==
    /\ state_store \in PersistedStates
    /\ pc = [r \in Requests |-> "idle"]
    /\ state = [r \in Requests |-> EmptyState]
    /\ written = NoRequest
    /\ result = NoRequest

\* state = state_store.get_state(workflow_id, session_id)
get_state(r) ==
    /\ pc[r] = "idle"
    /\ state' = [state EXCEPT ![r] = state_store]
    /\ pc' = [pc EXCEPT ![r] = "got"]
    /\ UNCHANGED <<state_store, written, result, providerVars, mainVars>>

\* "Initialize if empty", then the return value
initialise_and_return(r) ==
    /\ pc[r] = "got"
    /\ IF IsEmptyDict(state[r])
       THEN /\ state' = [state EXCEPT ![r] = InitialState]
            /\ state_store' = InitialState
            /\ written' = [written EXCEPT ![r] = {InitialState}]
            /\ result' = [result EXCEPT ![r] = {SelectionResult(InitialState)}]
       ELSE /\ result' = [result EXCEPT ![r] = {SelectionResult(state[r])}]
            /\ UNCHANGED <<state, state_store, written>>
    /\ pc' = [pc EXCEPT ![r] = "done"]
    /\ UNCHANGED <<providerVars, mainVars>>

\* demo_selection renders the step from the returned state and responds
demo_selection_respond(r) ==
    /\ pc[r] = "done"
    /\ pc' = [pc EXCEPT ![r] = "idle"]
    /\ state' = [state EXCEPT ![r] = EmptyState]
    /\ written' = [written EXCEPT ![r] = {}]
    /\ result' = [result EXCEPT ![r] = {}]
    /\ UNCHANGED <<state_store, providerVars, mainVars>>

\* A selection route stores a selected source (one read-modify-write of the store)
WithSelected(st, sources) ==
    [st EXCEPT !.step_states =
        {[selection |-> {[StepState(st) EXCEPT !.selected_sources = {sources}]}]}]

selection_route_select(sources) ==
    /\ state_store # WithSelected(state_store, sources)
    /\ state_store' = WithSelected(state_store, sources)
    /\ UNCHANGED <<pc, state, written, result, providerVars, mainVars>>

\* A selection route stores the active tab
selection_route_tab(tab) ==
    /\ state_store.source_tab # {tab}
    /\ state_store' = [state_store EXCEPT !.source_tab = {tab}]
    /\ UNCHANGED <<pc, state, written, result, providerVars, mainVars>>

-----------------------------------------------------------------------------
(* Specifications *)

ProviderIdle ==
    /\ ctorArg = <<>>
    /\ clock = [p \in Runs |-> <<>>]
    /\ records = [p \in Runs |-> <<>>]
    /\ heap = [p \in Runs |-> [c \in Cells |-> EmptyDict]]
    /\ call = NoCall
    /\ out = [p \in Runs |-> NoOut]

MainIdle ==
    /\ db_exists = FALSE
    /\ db_rows = 0
    /\ main_pc = "off"
    /\ source_service = <<>>
    /\ provider_info = [name |-> "", record_count |-> 0, is_mock |-> FALSE]

SessionIdle ==
    /\ state_store = EmptyState
    /\ pc = [r \in Requests |-> "off"]
    /\ state = [r \in Requests |-> EmptyState]
    /\ written = NoRequest
    /\ result = NoRequest

\* The provider on its own
Init == InitProvider /\ MainIdle /\ SessionIdle

Next ==
    \/ \E given \in LimitArgs : query_records(given)
    \/ \E record_id \in LookupIds : get_source_block(record_id)
    \/ \E slot \in EditSlots : CallerEditsMetadata(slot)

Spec == Init /\ [][Next]_vars

\* The start of main()
InitSetUp == ProviderIdle /\ InitMain /\ SessionIdle

NextSetUp == SetUpProvider

SpecMain == InitSetUp /\ [][NextSetUp]_vars

\* The requests served after main()
InitServing == ProviderIdle /\ MainIdle /\ InitSession

NextServing ==
    \/ \E r \in Requests : get_state(r)
    \/ \E r \in Requests : initialise_and_return(r)
    \/ \E r \in Requests : demo_selection_respond(r)
    \/ selection_route_select(<<"job_demo_001">>)
    \/ \E tab \in {"db", "files"} : selection_route_tab(tab)

SpecServing == InitServing /\ [][NextServing]_vars

-----------------------------------------------------------------------------
(* Views used by the properties *)

JobIdsOf(list) == [i \in 1 .. Len(list) |-> list[i].job_id]

SampleJobIds ==
    <<"job_demo_001", "job_demo_002", "job_demo_003", "job_demo_004", "job_demo_005">>

\* The stored records by value: every field, the metadata dict's content included
Snapshot(p) ==
    [i \in 1 .. Len(records[p]) |->
        [records[p][i] EXCEPT !.metadata = {heap[p][c] : c \in records[p][i].metadata}]]

\* The returned value by value
OutView(p) ==
    [records |-> [i \in 1 .. Len(out[p].records) |->
                    [out[p].records[i] EXCEPT !.metadata = heap[p][out[p].records[i].metadata]]],
     block |-> {[b EXCEPT !.metadata = heap[p][b.metadata]] : b \in out[p].block}]

\* The positions of the stored records with a job_id
Matches(p, record_id) == {i \in 1 .. Len(records[p]) : records[p][i].job_id = record_id}
First(S) == CHOOSE i \in S : \A j \in S : i <= j

\* What rec.get("metadata", {}) evaluates to, by value
MetadataOf(p, i) ==
    IF records[p][i].metadata = {} THEN EmptyDict
    ELSE heap[p][CHOOSE c \in records[p][i].metadata : TRUE]

-----------------------------------------------------------------------------
(* C1: once the provider is constructed, no accessor call and no change a
   caller makes to a returned value changes the stored records: their number,
   their order and every field of every record stay as they were. *)
RecordsImmutable == [][\A p \in Runs : Snapshot(p)' = Snapshot(p)]_vars

(* C2, as stated: the provider holds exactly the five records job_demo_001 ..
   job_demo_005 in every reachable state, whatever list it was constructed
   with. *)
AlwaysFiveRecords == \A p \in Runs : JobIdsOf(records[p]) = SampleJobIds

(* C2, amended: a provider constructed with _records omitted or empty holds
   exactly five records, job_demo_001 .. job_demo_005 in this order, in every
   reachable state; a provider constructed with a non-empty list holds the
   records of that list instead, however many they are. *)
FiveRecordsUnlessSupplied ==
    \A p \in Runs :
        /\ ctorArg = <<>> =>
            /\ Len(records[p]) = 5
            /\ JobIdsOf(records[p]) = SampleJobIds
            /\ \A i, j \in 1 .. 5 : i # j => records[p][i].job_id # records[p][j].job_id
        /\ ctorArg # <<>> => JobIdsOf(records[p]) = JobIdsOf(ctorArg)

FiveRecordsAfterEdit ==
    /\ ctorArg = <<>>
    /\ call.op = "edit"
    /\ \E c \in RecordCells : <<"edited", 1>> \in heap[1][c]
    /\ Len(records[1]) = 5

(* C3, as stated: for every integer limit, negative ones included,
   query_records(limit) returns at most limit records and never more than the
   provider holds. *)
AtMostLimit ==
    call.op = "query_records" =>
        \A p \in Runs :
            /\ Len(out[p].records) <= call.limit
            /\ Len(out[p].records) <= Len(records[p])

(* C3, amended: query_records(limit) never returns more records than the
   provider holds; for limit >= 0 it returns at most limit records; for
   limit < 0 it returns max(0, n + limit) records (all but the last -limit),
   which is more than limit. *)
LimitBoundsResult ==
    call.op = "query_records" =>
        \A p \in Runs :
            LET n == Len(records[p])
                k == Len(out[p].records)
            IN  /\ k <= n
                /\ call.limit >= 0 => k <= call.limit
                /\ call.limit < 0 => k = (IF n + call.limit > 0 THEN n + call.limit ELSE 0)

NegativeLimitReturnsRecords ==
    /\ call.op = "query_records"
    /\ call.limit < 0
    /\ Len(out[1].records) > 0

(* C4: get_source_block(record_id) returns None exactly when no stored record
   has job_id = record_id; otherwise it returns a block whose id is record_id
   and whose text, media_path and metadata are those of the first stored
   record with that job_id. *)
FindById ==
    call.op = "get_source_block" =>
        \A p \in Runs :
            LET m == Matches(p, call.record_id) IN
            /\ out[p].block = {} <=> m = {}
            /\ \A b \in out[p].block :
                LET rec == records[p][First(m)] IN
                /\ b.id = call.record_id
                /\ b.provider_id = "mock:demo-transcriptions"
                /\ b.text = (IF rec.text = {} THEN "" ELSE CHOOSE t \in rec.text : TRUE)
                /\ b.media_path = (IF rec.audio_path = {} THEN PyNone
                                   ELSE PyStr(CHOOSE a \in rec.audio_path : TRUE))
                /\ heap[p][b.metadata] = MetadataOf(p, First(m))

FoundFirstOfTwo ==
    /\ call.op = "get_source_block"
    /\ out[1].block # {}
    /\ \E i, j \in Matches(1, call.record_id) : i < j /\ records[1][i].text # records[1][j].text

(* C5, as stated: two runs with the same constructor input and the same
   sequence of calls return equal values at every step, whenever each
   provider was constructed. *)
DeterministicOutput == OutView(1) = OutView(2)

(* C5, amended: two runs with the same constructor input and the same
   sequence of calls return values that are equal in every field except the
   created_at of the generated sample records, which follows the clock at
   construction; the outputs are equal in every field when a non-empty list
   was supplied or the two constructions read the same clock values. *)
DeterministicButCreatedAt ==
    /\ OutView(1).block = OutView(2).block
    /\ Len(out[1].records) = Len(out[2].records)
    /\ \A i \in 1 .. Len(out[1].records) :
        [OutView(1).records[i] EXCEPT !.created_at = ""]
            = [OutView(2).records[i] EXCEPT !.created_at = ""]
    /\ (ctorArg # <<>> \/ clock[1] = clock[2]) => OutView(1) = OutView(2)

RunsBuiltAtDifferentTimes ==
    /\ ctorArg = <<>>
    /\ clock[1] # clock[2]
    /\ call.op = "query_records"
    /\ Len(out[1].records) > 0
    /\ out[1].records[1].created_at # out[2].records[1].created_at

(* C7: for limit >= 0, query_records(limit) returns exactly min(limit, n)
   records, the i-th made from the i-th stored record: record_id = job_id,
   media_path = audio_path or "", text or "", metadata or {}, created_at or
   "", provider_id = the provider's id; with no argument the limit is 100. *)
QueryCopiesPrefix ==
    call.op = "query_records" =>
        /\ call.given = {} => call.limit = 100
        /\ call.given # {} => call.limit \in call.given
        /\ call.limit >= 0 =>
            \A p \in Runs :
                LET n == Len(records[p])
                    res == out[p].records
                IN  /\ Len(res) = (IF call.limit <= n THEN call.limit ELSE n)
                    /\ \A i \in 1 .. Len(res) :
                        LET rec == records[p][i] IN
                        /\ res[i].record_id = rec.job_id
                        /\ res[i].media_path =
                            PyStr(IF rec.audio_path = {} THEN ""
                                  ELSE CHOOSE a \in rec.audio_path : TRUE)
                        /\ res[i].text = (IF rec.text = {} THEN ""
                                          ELSE CHOOSE t \in rec.text : TRUE)
                        /\ res[i].created_at = (IF rec.created_at = {} THEN ""
                                                ELSE CHOOSE t \in rec.created_at : TRUE)
                        /\ heap[p][res[i].metadata] = MetadataOf(p, i)
                        /\ res[i].provider_id = "mock:demo-transcriptions"

QueryFilledDefaults ==
    /\ call.op = "query_records"
    /\ call.limit >= 0
    /\ \E i \in 1 .. Len(out[1].records) :
        /\ records[1][i].audio_path = {}
        /\ records[1][i].metadata = {}
        /\ i > 1

(* C9, as stated: every record r that query_records(limit), limit >= 0,
   returns can be looked up again: get_source_block(r.record_id) is a block
   with id = r.record_id, provider_id = r.provider_id, text = r.text,
   media_path = r.media_path and metadata = r.metadata, also for a record
   without audio_path and for one that shares its job_id with an earlier
   record. *)
AccessorsAgree ==
    (call.op = "query_records" /\ call.limit >= 0) =>
        \A p \in Runs : \A i \in 1 .. Len(out[p].records) :
            LET r == out[p].records[i]
                found == GetSourceBlock(records[p], _id, r.record_id)
            IN  /\ found # {}
                /\ \A b \in found :
                    /\ b.id = r.record_id
                    /\ b.provider_id = r.provider_id
                    /\ b.text = r.text
                    /\ b.media_path = r.media_path
                    /\ heap[p][b.metadata] = heap[p][r.metadata]

(* C9, amended: for every record r that query_records(limit) returns,
   get_source_block(r.record_id) is a block with id = r.record_id and
   provider_id = r.provider_id; its text, media_path and metadata are those
   of the FIRST stored record with that job_id, so they are r's when r was
   made from that record, except that the block's media_path is None where
   r's is "" when the record has no audio_path. *)
AccessorsAgreeOnFirst ==
    call.op = "query_records" =>
        \A p \in Runs : \A i \in 1 .. Len(out[p].records) :
            LET r == out[p].records[i]
                found == GetSourceBlock(records[p], _id, r.record_id)
                f == First(Matches(p, r.record_id))
            IN  /\ found # {}
                /\ \A b \in found :
                    /\ b.id = r.record_id
                    /\ b.provider_id = r.provider_id
                    /\ b.text = (IF records[p][f].text = {} THEN ""
                                 ELSE CHOOSE t \in records[p][f].text : TRUE)
                    /\ heap[p][b.metadata] = MetadataOf(p, f)
                    /\ i = f =>
                        /\ b.text = r.text
                        /\ heap[p][b.metadata] = heap[p][r.metadata]
                        /\ records[p][i].audio_path # {} => b.media_path = r.media_path
                        /\ records[p][i].audio_path = {} =>
                            (b.media_path = PyNone /\ r.media_path = PyStr(""))

QueriedDuplicateAndBare ==
    /\ call.op = "query_records"
    /\ \E i, j \in 1 .. Len(out[1].records) :
        /\ i < j
        /\ out[1].records[i].record_id = out[1].records[j].record_id
        /\ out[1].records[i].text # out[1].records[j].text
        /\ records[1][i].audio_path = {}

(* C6: main() adds exactly one provider to the source service: the real
   TranscriptionDBProvider if and only if TEST_DB_PATH exists, the mock
   provider otherwise; provider_info.is_mock holds exactly when the mock was
   added, provider_info.name is the added provider's provider_name and
   record_count is the number of records it offers, at most 100 for the real
   one. *)
RealOrMockFallback ==
    /\ main_pc = "setup" => source_service = <<>>
    /\ main_pc = "ready" =>
        /\ Len(source_service) = 1
        /\ source_service[1].kind = "real" <=> db_exists
        /\ source_service[1].kind = "mock" <=> ~db_exists
        /\ provider_info.is_mock <=> source_service[1].kind = "mock"
        /\ provider_info.name = source_service[1].provider_name
        /\ provider_info.name =
            (IF db_exists THEN "Voxtral HF Transcriptions" ELSE "Demo Transcriptions")
        /\ provider_info.record_count =
            (IF db_exists THEN (IF db_rows <= 100 THEN db_rows ELSE 100) ELSE 5)

RealProviderCapped ==
    /\ main_pc = "ready"
    /\ db_exists
    /\ db_rows > 100
    /\ provider_info.record_count = 100
    /\ ~provider_info.is_mock

(* C8: get_selection_state reads the stored state without writing; if what it
   read is empty it writes exactly {step_states: {selection: {}}, source_tab:
   "db"} and returns the defaults ([], "media_path", [], {}, "db"); if it is
   not empty it writes nothing and returns the stored values, active_tab being
   the root-level source_tab; and a second call that reads what the first one
   read or wrote writes nothing and returns the same result. *)
InitialisesOnlyWhenEmpty ==
    [][\A r \in Requests :
        /\ (pc[r] = "idle" /\ pc'[r] = "got") =>
            (state'[r] = state_store /\ state_store' = state_store)
        /\ (pc[r] = "got" /\ pc'[r] = "done") =>
            LET read == state[r]
                empty == read.step_states = {} /\ read.source_tab = {} /\ read.current_step = {}
                initial == [step_states |-> {[selection |-> {EmptySelection}]},
                            source_tab |-> {"db"}, current_step |-> {}]
                after == IF empty THEN initial ELSE read
            IN  /\ empty =>
                    /\ state_store' = initial
                    /\ written'[r] = {initial}
                    /\ result'[r] = {[selected_sources |-> <<>>,
                                      grouping_mode |-> "media_path",
                                      external_db_paths |-> <<>>,
                                      file_browser_state |-> {},
                                      active_tab |-> "db"]}
                /\ ~empty =>
                    /\ state_store' = state_store
                    /\ written'[r] = {}
                    /\ \A res \in result'[r] :
                        /\ \A v \in StepState(read).selected_sources : res.selected_sources = v
                        /\ \A v \in StepState(read).grouping_mode : res.grouping_mode = v
                        /\ \A v \in StepState(read).external_db_paths : res.external_db_paths = v
                        /\ \A v \in StepState(read).file_browser_state : res.file_browser_state = v
                        /\ \A v \in read.source_tab : res.active_tab = v
                        /\ StepState(read).selected_sources = {} => res.selected_sources = <<>>
                        /\ StepState(read).grouping_mode = {} => res.grouping_mode = "media_path"
                        /\ StepState(read).external_db_paths = {} => res.external_db_paths = <<>>
                        /\ StepState(read).file_browser_state = {} => res.file_browser_state = {}
                        /\ read.source_tab = {} => res.active_tab = "db"
                /\ result'[r] # {}
                /\ ~IsEmptyDict(after)
                /\ result'[r] = {SelectionResult(after)}
      ]_vars

InitialisedAndReadBack ==
    \E r1, r2 \in Requests :
        /\ pc[r1] = "done" /\ written[r1] # {}
        /\ pc[r2] = "done" /\ written[r2] = {}
        /\ \E res \in result[r2] :
            res.selected_sources = <<"job_demo_001">> /\ res.active_tab = "files"

(* C10: under any interleaving of demo_selection requests and selection
   routes on the same session, get_selection_state never replaces a non-empty
   stored state by the empty initial state. *)
NoLostUpdate ==
    [][\A r \in Requests :
        (pc[r] = "got" /\ pc'[r] = "done" /\ state_store' # state_store)
            => IsEmptyDict(state_store)]_vars

====
